---- MODULE Spec2Model ----
(***************************************************************************)
(* A model of the pysh scripting helper: the argument builder and parser   *)
(* (ArgumentParserPysh, both revisions: files/pyshlib.py and files/pysh.py)*)
(* the entry-point guard main_wrap, and the process runner (PySh.cmd,      *)
(* called PySh.process in files/pysh.py, and PySh.shell).                  *)
(*                                                                         *)
(* Python strings are modelled as sequences of atoms.  Names, tokens and   *)
(* environment values are sequences of one-character strings, so that      *)
(* startswith, lstrip, replace, lower and int() are computed character by  *)
(* character.  Exception messages are sequences of longer atoms.           *)
(***************************************************************************)
EXTENDS Integers, Sequences, FiniteSets, TLC

VARIABLES
    module,             \* the library revision the script imports: "pyshlib" or "pysh"
    positional_actions, \* the parser's positional actions, in declaration order
    option_actions,     \* the parser's optional actions (option strings), in declaration order
    positionals_locked, \* ArgumentParserPysh._positionals_locked
    pc,                 \* where the process is: "main", "raised", "returned", "exit", "propagated"
    exc,                \* the exception in flight or last raised (NoExc when none)
    op,                 \* the last library operation the script invoked
    arg,                \* the argument of that operation (a name, a token list, ...)
    ns,                 \* the Namespace returned by the last successful parse
    toggle,             \* the value of the guard's environment variable (Unset when absent)
    stdout,             \* what the guard printed to standard output, line by line
    stderr,             \* what argparse printed to standard error, line by line
    result,             \* what main_wrap returned to its caller
    status,             \* <<code>> once the process has ended with that exit status
    os_name,            \* the host's os.name: "posix" or "nt"
    returned            \* what the last cmd/process or shell call returned (NoReturn when none)

vars == <<module, positional_actions, option_actions, positionals_locked, pc, exc, op, arg,
          ns, toggle, stdout, stderr, result, status, os_name, returned>>

----------------------------------------------------------------------------
(* Bounds of the model. *)

\* longest flag/option name given to flags() and options()
MaxNameLen == 3
\* most flags and options registered when names are explored
MaxFlags == 1
\* positionals() is called while fewer positionals than this are registered
MaxPositionals == 2
\* longest token list given to parse()
MaxArgv == 2
\* most arguments a script registers; it parses its command line once
MaxCalls == 2

----------------------------------------------------------------------------
(* Python string primitives. *)

Lowercase == {"a","b","c","d","e","f","g","h","i","j","k","l","m",
              "n","o","p","q","r","s","t","u","v","w","x","y","z"}
Uppercase == {"A","B","C","D","E","F","G","H","I","J","K","L","M",
              "N","O","P","Q","R","S","T","U","V","W","X","Y","Z"}
Digits == {"0","1","2","3","4","5","6","7","8","9"}

\* s.startswith(p)
StartsWith(s, p) ==
    /\ Len(p) <= Len(s)
    /\ \A i \in 1..Len(p) : s[i] = p[i]

\* s.replace(a, b) for one-character a and b
Replace(s, a, b) == [i \in 1..Len(s) |-> IF s[i] = a THEN b ELSE s[i]]

\* s.lstrip(c) for a one-character c
RECURSIVE LStrip(_, _)
LStrip(s, c) == IF s # <<>> /\ Head(s) = c THEN LStrip(Tail(s), c) ELSE s

\* c.lower() for one character
LowerChar(c) ==
    CASE c = "T" -> "t"
      [] c = "R" -> "r"
      [] c = "U" -> "u"
      [] c = "E" -> "e"
      [] c = "F" -> "f"
      [] c = "A" -> "a"
      [] c = "L" -> "l"
      [] c = "S" -> "s"
      [] OTHER -> c

\* s.lower()
Lower(s) == [i \in 1..Len(s) |-> LowerChar(s[i])]

\* all strings over an alphabet, up to a length
StringsUpTo(chars, n) == UNION {[1..k -> chars] : k \in 0..n}

\* the literal strings the code names
StrPositionals == <<"p","o","s","i","t","i","o","n","a","l","s">>
StrTrue == <<"t","r","u","e">>
StrHelp == <<"h","e","l","p">>

----------------------------------------------------------------------------
(* Exceptions. *)

NoExc == [cls |-> "None", args |-> <<>>, code |-> 0]
Raise(cls, msg) == [cls |-> cls, args |-> <<msg>>, code |-> 0]
SystemExit(code) == [cls |-> "SystemExit", args |-> <<>>, code |-> code]

MsgLocked == <<"INTENRAL FATAL: Positional args can no longer be added.">>
MsgPosName == <<"Supply a valid name for positional args">>
MsgNargs == <<"Invalid nargs - use '+' or '*' or '?'">>
MsgIndex == <<"string index out of range">>
MsgDest(o) == <<"dest= is required for options like '">> \o o \o <<"'">>
MsgConflict(o) == <<"argument ">> \o o \o <<": conflicting option string: ">> \o o
MsgOptionsArgs == <<"ArgumentParserPysh.options() takes 1 positional argument but more were given">>

----------------------------------------------------------------------------
(* Values held by a parsed Namespace and by option defaults.  Each value   *)
(* carries its Python type, so an integer 22 and the string "22" differ.   *)

VNone == [t |-> "NoneType", v |-> <<>>]
VInt(n) == [t |-> "int", v |-> n]
VStr(s) == [t |-> "str", v |-> s]
VBool(b) == [t |-> "bool", v |-> b]
VList(l) == [t |-> "list", v |-> l]

\* type(defval)
TypeOf(val) == val.t

----------------------------------------------------------------------------
(* argparse.ArgumentParser.add_argument, as the library uses it.           *)
(* A parser is the pair of its positional actions and its optional         *)
(* actions; add_argument returns the new pair, or the exception it raised. *)

PosAction(dest, nargs) == [dest |-> dest, nargs |-> nargs]
OptAction(o, dest, action, type, default) ==
    [opt |-> o, dest |-> dest, action |-> action, type |-> type, default |-> default]

\* argparse registers -h/--help when the parser is constructed
HelpActions ==
    << OptAction(<<"-","h">>, StrHelp, "help", "None", VNone),
       OptAction(<<"-","-">> \o StrHelp, StrHelp, "help", "None", VNone) >>

Built(pos, opts, locked, e) == [pos |-> pos, opts |-> opts, locked |-> locked, exc |-> e]

\* kw: [nargs, action, type, default]
AddArgument(pos, opts, name, kw) ==
    IF name = <<>> THEN
        \* args[0][0] on the empty string
        [pos |-> pos, opts |-> opts, exc |-> Raise("IndexError", MsgIndex)]
    ELSE IF Head(name) # "-" THEN
        \* a positional: no conflict check is made on its dest
        [pos |-> Append(pos, PosAction(name, kw.nargs)), opts |-> opts, exc |-> NoExc]
    ELSE
        LET dest == LStrip(name, "-") IN
        IF dest = <<>> THEN
            [pos |-> pos, opts |-> opts, exc |-> Raise("ValueError", MsgDest(name))]
        ELSE IF \E i \in 1..Len(opts) : opts[i].opt = name THEN
            [pos |-> pos, opts |-> opts, exc |-> Raise("ArgumentError", MsgConflict(name))]
        ELSE
            [pos |-> pos,
             opts |-> Append(opts, OptAction(name, Replace(dest, "-", "_"),
                                             kw.action, kw.type, kw.default)),
             exc |-> NoExc]

KwPlain == [nargs |-> "None", action |-> "store", type |-> "None", default |-> VNone]
KwNargs(n) == [nargs |-> n, action |-> "store", type |-> "None", default |-> VNone]
KwStoreTrue == [nargs |-> "0", action |-> "store_true", type |-> "None", default |-> VBool(FALSE)]
\* a variant that forgets to pass type=
KwOption_NoType(defval) == [nargs |-> "None", action |-> "store", type |-> "None", default |-> defval]

KwOption(defval) == [nargs |-> "None", action |-> "store", type |-> TypeOf(defval), default |-> defval]

\* for name in names: self._parser.add_argument(name) -- stops at the first exception
RECURSIVE AddNames(_, _, _)
AddNames(pos, opts, names) ==
    IF names = <<>> THEN [pos |-> pos, opts |-> opts, exc |-> NoExc]
    ELSE LET r == AddArgument(pos, opts, Head(names), KwPlain) IN
         IF r.exc # NoExc THEN r ELSE AddNames(r.pos, r.opts, Tail(names))

----------------------------------------------------------------------------
(* ArgumentParserPysh.positionals *)

\* re.match(r'^[a-zA-Z_][a-zA-Z0-9_]*$', pos_name)
ValidPosName(s) ==
    /\ s # <<>>
    /\ Head(s) \in Lowercase \cup Uppercase \cup {"_"}
    /\ \A i \in 2..Len(s) : s[i] \in Lowercase \cup Uppercase \cup Digits \cup {"_"}

NoSpecial == [rest |-> <<>>, nargs |-> ""]

\* a variant that forgets to lock after a zero-or-more positional
PositionalsLib_LockPlusOnly(pos, opts, locked, names, special) ==
    IF locked THEN Built(pos, opts, locked, Raise("AssertionError", MsgLocked))
    ELSE
        LET r == AddNames(pos, opts, names) IN
        IF r.exc # NoExc THEN Built(r.pos, r.opts, locked, r.exc)
        ELSE IF special.rest = <<>> THEN Built(r.pos, r.opts, locked, NoExc)
        ELSE IF ~ValidPosName(special.rest)
            THEN Built(r.pos, r.opts, locked, Raise("AssertionError", MsgPosName))
        ELSE IF special.nargs \notin {"+", "*", "?"}
            THEN Built(r.pos, r.opts, locked, Raise("AssertionError", MsgNargs))
        ELSE
            LET q == AddArgument(r.pos, r.opts, special.rest, KwNargs(special.nargs)) IN
            Built(q.pos, q.opts,
                  IF q.exc = NoExc /\ special.nargs = "+" THEN TRUE ELSE locked,
                  q.exc)

\* files/pyshlib.py: positionals(*names, **special)
PositionalsLib(pos, opts, locked, names, special) ==
    IF locked THEN Built(pos, opts, locked, Raise("AssertionError", MsgLocked))
    ELSE
        LET r == AddNames(pos, opts, names) IN
        IF r.exc # NoExc THEN Built(r.pos, r.opts, locked, r.exc)
        ELSE IF special.rest = <<>> THEN Built(r.pos, r.opts, locked, NoExc)
        ELSE IF ~ValidPosName(special.rest)
            THEN Built(r.pos, r.opts, locked, Raise("AssertionError", MsgPosName))
        ELSE IF special.nargs \notin {"+", "*", "?"}
            THEN Built(r.pos, r.opts, locked, Raise("AssertionError", MsgNargs))
        ELSE
            LET q == AddArgument(r.pos, r.opts, special.rest, KwNargs(special.nargs)) IN
            Built(q.pos, q.opts,
                  IF q.exc = NoExc /\ special.nargs \in {"+", "*"} THEN TRUE ELSE locked,
                  q.exc)

\* files/pysh.py: positionals(*names)
PositionalsOld(pos, opts, locked, names) ==
    IF locked THEN Built(pos, opts, locked, Raise("AssertionError", MsgLocked))
    ELSE IF Len(names) = 1 /\ names[1] \in {<<"+">>, <<"*">>} THEN
        LET q == AddArgument(pos, opts, StrPositionals, KwNargs(names[1][1])) IN
        Built(q.pos, q.opts, locked, q.exc)
    ELSE
        LET r == AddNames(pos, opts, names) IN
        Built(r.pos, r.opts, locked, r.exc)

----------------------------------------------------------------------------
(* ArgumentParserPysh.flags and ArgumentParserPysh.options *)

\* a variant that gives a bare word one dash only
Normalize_OneDash(flag) ==
    IF ~StartsWith(flag, <<"-","-">>) THEN <<"-">> \o flag ELSE flag

\* a variant that keeps a one-dash name as a short flag
Normalize_KeepShort(flag) ==
    IF StartsWith(flag, <<"-">>) THEN flag ELSE <<"-","-">> \o flag

\* the name normalisation shared by flags() and options()
Normalize(flag) ==
    IF ~StartsWith(flag, <<"-","-">>) THEN
        IF StartsWith(flag, <<"-">>) THEN <<"-">> \o flag
        ELSE <<"-","-">> \o flag
    ELSE flag

\* the option string flags() registers for a name
FlagName(rev, flag) ==
    IF rev = "pyshlib" THEN Replace(Normalize(flag), "_", "-") ELSE Normalize(flag)

\* the option string options() registers for a name
OptionName(rev, flag) == Normalize(flag)

\* flags(*flags) -- stops at the first exception
RECURSIVE FlagsLoop(_, _, _, _)
FlagsLoop(rev, pos, opts, flags) ==
    IF flags = <<>> THEN [pos |-> pos, opts |-> opts, exc |-> NoExc]
    ELSE LET r == AddArgument(pos, opts, FlagName(rev, Head(flags)), KwStoreTrue) IN
         IF r.exc # NoExc THEN r ELSE FlagsLoop(rev, r.pos, r.opts, Tail(flags))

\* options(**opts): opts is the keyword dictionary, in order, as <<name, default>> pairs
RECURSIVE OptionsLoop(_, _, _, _)
OptionsLoop(rev, pos, opts, kwargs) ==
    IF kwargs = <<>> THEN [pos |-> pos, opts |-> opts, exc |-> NoExc]
    ELSE LET r == AddArgument(pos, opts, OptionName(rev, Head(kwargs)[1]),
                              KwOption(Head(kwargs)[2])) IN
         IF r.exc # NoExc THEN r ELSE OptionsLoop(rev, r.pos, r.opts, Tail(kwargs))

----------------------------------------------------------------------------
(* Type coercion of an option's value: argparse calls type(defval) on the  *)
(* token.                                                                  *)

DigitVal(c) ==
    CASE c = "0" -> 0 [] c = "1" -> 1 [] c = "2" -> 2 [] c = "3" -> 3 [] c = "4" -> 4
      [] c = "5" -> 5 [] c = "6" -> 6 [] c = "7" -> 7 [] c = "8" -> 8 [] c = "9" -> 9

\* the digits of an int() literal: digits, single underscores only between digits
IsDigits(s) ==
    /\ s # <<>>
    /\ \A i \in 1..Len(s) : s[i] \in Digits \cup {"_"}
    /\ s[1] # "_" /\ s[Len(s)] # "_"
    /\ \A i \in 1..(Len(s) - 1) : ~(s[i] = "_" /\ s[i + 1] = "_")

RECURSIVE DigitsVal(_, _)
DigitsVal(s, acc) ==
    IF s = <<>> THEN acc
    ELSE IF Head(s) = "_" THEN DigitsVal(Tail(s), acc)
    ELSE DigitsVal(Tail(s), acc * 10 + DigitVal(Head(s)))

\* int(s): [ok, val]; not ok stands for ValueError
IntOf(s) ==
    LET signed == s # <<>> /\ Head(s) \in {"+", "-"}
        body == IF signed THEN Tail(s) ELSE s
    IN  IF ~IsDigits(body) THEN [ok |-> FALSE, val |-> VNone]
        ELSE [ok |-> TRUE,
              val |-> VInt(IF signed /\ Head(s) = "-" THEN 0 - DigitsVal(body, 0)
                           ELSE DigitsVal(body, 0))]

\* type_func(arg_string), for the type add_argument was given
Coerce(type, tok) ==
    CASE type = "None" -> [ok |-> TRUE, val |-> VStr(tok)]
      [] type = "str" -> [ok |-> TRUE, val |-> VStr(tok)]
      [] type = "int" -> IntOf(tok)
      [] type = "bool" -> [ok |-> TRUE, val |-> VBool(tok # <<>>)]
      [] OTHER -> [ok |-> FALSE, val |-> VNone]   \* NoneType(tok) raises TypeError

----------------------------------------------------------------------------
(* argparse.ArgumentParser.parse_args (CPython 3.11), for the actions the  *)
(* library registers: positionals with nargs None, '?', '*', '+';          *)
(* store_true flags; one-value options with a type; the built-in help.     *)
(* Tokens of the model hold no '=', no blank and no 'h', and "--" is not a *)
(* token, so explicit arguments (--opt=value), short-option clusters and   *)
(* the "--" separator do not arise.                                        *)

ErrAmbiguous == <<"error: ambiguous option">>
ErrExpectedOne == <<"error: expected one argument">>
ErrInvalidValue == <<"error: invalid value">>
ErrRequired == <<"error: the following arguments are required">>
ErrUnrecognized == <<"error: unrecognized arguments">>
HelpText == <<"usage">>

\* _negative_number_matcher: '^-\d+$|^-\d*\.\d+$'
LooksNegative(tok) ==
    /\ Len(tok) >= 2
    /\ tok[1] = "-"
    /\ \/ \A i \in 2..Len(tok) : tok[i] \in Digits
       \/ \E k \in 2..(Len(tok) - 1) :
            /\ tok[k] = "."
            /\ \A i \in (2..Len(tok)) \ {k} : tok[i] \in Digits

\* _has_negative_number_optionals
HasNegativeOptionals(opts) == \E i \in 1..Len(opts) : LooksNegative(opts[i].opt)

\* _get_option_tuples: the registered option strings a token abbreviates
Abbreviated(opts, tok) == {i \in 1..Len(opts) : StartsWith(opts[i].opt, tok)}

\* _parse_optional: "A" a positional token, "O" an option token (act = 0: unknown)
Classify(opts, tok) ==
    IF tok = <<>> \/ Head(tok) # "-" THEN [kind |-> "A", act |-> 0]
    ELSE IF \E i \in 1..Len(opts) : opts[i].opt = tok
        THEN [kind |-> "O", act |-> CHOOSE i \in 1..Len(opts) : opts[i].opt = tok]
    ELSE IF Len(tok) = 1 THEN [kind |-> "A", act |-> 0]
    ELSE LET m == Abbreviated(opts, tok) IN
         IF Cardinality(m) > 1 THEN [kind |-> "ambiguous", act |-> 0]
         ELSE IF Cardinality(m) = 1 THEN [kind |-> "O", act |-> CHOOSE i \in m : TRUE]
         ELSE IF LooksNegative(tok) /\ ~HasNegativeOptionals(opts)
             THEN [kind |-> "A", act |-> 0]
         ELSE [kind |-> "O", act |-> 0]

\* the number of consecutive positional tokens from index i
RECURSIVE RunOfA(_, _)
RunOfA(cls, i) ==
    IF i > Len(cls) \/ cls[i].kind # "A" THEN 0 ELSE 1 + RunOfA(cls, i + 1)

\* the fewest tokens a positional takes: '(-*A-*)', '(-*A?-*)', '(-*[A-]*)', '(-*A[A-]*)'
MinArgs(nargs) == IF nargs \in {"None", "+"} THEN 1 ELSE 0

RECURSIVE SumMin(_)
SumMin(acts) == IF acts = <<>> THEN 0 ELSE MinArgs(Head(acts).nargs) + SumMin(Tail(acts))

\* _match_arguments_partial: the longest prefix of the positionals whose
\* concatenated pattern matches at the start of n positional tokens
MatchCount(acts, n) ==
    CHOOSE k \in 0..Len(acts) :
        /\ SumMin(SubSeq(acts, 1, k)) <= n
        /\ \A j \in (k + 1)..Len(acts) : SumMin(SubSeq(acts, 1, j)) > n

\* _get_values of a positional given c tokens from index i
PositionalValue(a, argv, i, c) ==
    CASE a.nargs = "None" -> VStr(argv[i])
      [] a.nargs = "?" -> IF c = 0 THEN VNone ELSE VStr(argv[i])
      [] OTHER -> VList(SubSeq(argv, i, i + c - 1))

\* the groups of the regular expression are greedy, from the left
RECURSIVE TakePositionals(_, _, _, _, _)
TakePositionals(acts, argv, i, n, names) ==
    IF acts = <<>> THEN [i |-> i, ns |-> names]
    ELSE LET a == Head(acts)
             room == n - SumMin(Tail(acts))
             c == IF a.nargs \in {"+", "*"} THEN room
                  ELSE IF room >= 1 THEN 1 ELSE 0
         IN  TakePositionals(Tail(acts), argv, i + c, n - c,
                             [names EXCEPT ![a.dest] = PositionalValue(a, argv, i, c)])

\* consume_positionals(start_index)
ConsumePositionals(st, argv, cls) ==
    LET n == RunOfA(cls, st.i)
        k == MatchCount(st.pos, n)
        r == TakePositionals(SubSeq(st.pos, 1, k), argv, st.i, n, st.ns)
    IN  [st EXCEPT !.i = r.i, !.ns = r.ns, !.pos = SubSeq(st.pos, k + 1, Len(st.pos))]

Fail(st, code, msg) == [st EXCEPT !.exc = SystemExit(code), !.err = msg]

\* consume_optional(start_index)
ConsumeOptional(st, opts, argv, cls) ==
    LET act == cls[st.i].act IN
    IF act = 0 THEN [st EXCEPT !.i = st.i + 1, !.extras = st.extras + 1]
    ELSE LET a == opts[act] IN
         CASE a.action = "help" -> Fail(st, 0, HelpText)
           [] a.action = "store_true" ->
                [st EXCEPT !.i = st.i + 1, !.ns[a.dest] = VBool(TRUE)]
           [] OTHER ->
                IF st.i + 1 > Len(argv) \/ cls[st.i + 1].kind # "A"
                THEN Fail(st, 2, ErrExpectedOne)
                ELSE LET v == Coerce(a.type, argv[st.i + 1]) IN
                     IF ~v.ok THEN Fail(st, 2, ErrInvalidValue)
                     ELSE [st EXCEPT !.i = st.i + 2, !.ns[a.dest] = v.val]

\* the loop of _parse_known_args
RECURSIVE ParseLoop(_, _, _, _)
ParseLoop(st, opts, argv, cls) ==
    LET optionIndices == {j \in st.i..Len(argv) : cls[j].kind = "O"} IN
    IF st.exc # NoExc THEN st
    ELSE IF optionIndices = {} THEN
        LET s == ConsumePositionals(st, argv, cls) IN
        [s EXCEPT !.extras = s.extras + (Len(argv) + 1 - s.i), !.i = Len(argv) + 1]
    ELSE
        LET next == CHOOSE j \in optionIndices : \A m \in optionIndices : j <= m
            s1 == IF st.i # next THEN ConsumePositionals(st, argv, cls) ELSE st
        IN  IF s1.i > st.i THEN ParseLoop(s1, opts, argv, cls)
            ELSE LET s2 == IF s1.i # next
                           THEN [s1 EXCEPT !.extras = s1.extras + (next - s1.i), !.i = next]
                           ELSE s1
                 IN  ParseLoop(ConsumeOptional(s2, opts, argv, cls), opts, argv, cls)

\* the destinations of a Namespace, and the defaults parse_args starts from
Dests(pos, opts) ==
    {pos[i].dest : i \in 1..Len(pos)}
        \cup {opts[i].dest : i \in {j \in 1..Len(opts) : opts[j].action # "help"}}

DefaultOf(pos, opts, d) ==
    LET having == {i \in 1..Len(opts) : opts[i].dest = d /\ opts[i].action # "help"} IN
    IF having = {} THEN VNone
    ELSE opts[CHOOSE i \in having : \A j \in having : i <= j].default

\* a positional left unconsumed is reported when it is required
Required(a) == a.nargs # "?"

\* parse_args(argv): [ns, exc, err]
ParseArgs(pos, opts, argv) ==
    LET cls == [i \in 1..Len(argv) |-> Classify(opts, argv[i])]
        st0 == [i |-> 1, pos |-> pos, extras |-> 0, exc |-> NoExc, err |-> <<>>,
                ns |-> [d \in Dests(pos, opts) |-> DefaultOf(pos, opts, d)]]
    IN  IF \E i \in 1..Len(argv) : cls[i].kind = "ambiguous"
        THEN Fail(st0, 2, ErrAmbiguous)
        ELSE LET st == ParseLoop(st0, opts, argv, cls) IN
             IF st.exc # NoExc THEN st
             ELSE IF \E j \in 1..Len(st.pos) : Required(st.pos[j])
                 THEN Fail(st, 2, ErrRequired)
             ELSE IF st.extras > 0 THEN Fail(st, 2, ErrUnrecognized)
             ELSE st

----------------------------------------------------------------------------
(* The state after `pysh = PySh(__file__)`: a fresh ArgumentParserPysh,    *)
(* nothing printed, the script about to run the function given to          *)
(* main_wrap.                                                              *)

NoNamespace == <<>>
Pending == [t |-> "pending", v |-> <<>>]
NoStatus == <<>>
Exited(code) == <<code>>
EnvUnset == [set |-> FALSE, val |-> <<>>]
EnvSet(s) == [set |-> TRUE, val |-> s]

\* values the environment gives the guard's variable
ToggleValues ==
    { StrTrue, <<"T","R","U","E">>, <<"T","r","u","e">>, <<"t","R","u","E">>,
      <<"f","a","l","s","e">>, <<"F","A","L","S","E">>, <<>>, <<"1">>,
      <<"t","r","u","e","e">>, <<"t","r","u">> }
Environments == {EnvUnset} \cup {EnvSet(s) : s \in ToggleValues}

Revisions == {"pyshlib", "pysh"}

\* os.name of the hosts the library names in platform()
Platforms == {"posix", "nt"}
NoReturn == <<>>

Init ==
    /\ module \in Revisions
    /\ positional_actions = <<>>
    /\ option_actions = HelpActions
    /\ positionals_locked = FALSE
    /\ pc = "main"
    /\ exc = NoExc
    /\ op = "none"
    /\ arg = <<>>
    /\ ns = NoNamespace
    /\ toggle \in Environments
    /\ stdout = <<>>
    /\ stderr = <<>>
    /\ result = Pending
    /\ status = NoStatus
    /\ os_name \in Platforms
    /\ returned = NoReturn

\* the builder reads neither the environment nor the platform
InitBuilder == Init /\ toggle = EnvUnset /\ os_name = "posix"

----------------------------------------------------------------------------
(* The operations of ArgumentParserPysh, called by the running script.     *)

MsgKeyword == <<"ArgumentParserPysh.positionals() got an unexpected keyword argument">>

\* what a builder call leaves behind: the parser, and the exception if it raised
Called(name, a, r) ==
    /\ op' = name
    /\ arg' = a
    /\ positional_actions' = r.pos
    /\ option_actions' = r.opts
    /\ exc' = r.exc
    /\ pc' = IF r.exc = NoExc THEN "main" ELSE "raised"
    /\ ns' = NoNamespace
    /\ UNCHANGED <<module, toggle, stdout, stderr, result, status, os_name, returned>>

positionals(names, special) ==
    /\ pc = "main"
    /\ \E r \in { IF module = "pyshlib"
                   THEN PositionalsLib(positional_actions, option_actions,
                                       positionals_locked, names, special)
                   ELSE IF special # NoSpecial
                   THEN Built(positional_actions, option_actions, positionals_locked,
                              Raise("TypeError", MsgKeyword))
                   ELSE PositionalsOld(positional_actions, option_actions,
                                       positionals_locked, names) } :
           /\ Called("positionals", [names |-> names, special |-> special], r)
           /\ positionals_locked' = r.locked

flags(names) ==
    /\ pc = "main"
    /\ \E r \in {FlagsLoop(module, positional_actions, option_actions, names)} :
            Called("flags", names, r)
    /\ UNCHANGED positionals_locked

options(kwargs) ==
    /\ pc = "main"
    /\ \E r \in {OptionsLoop(module, positional_actions, option_actions, kwargs)} :
            Called("options", kwargs, r)
    /\ UNCHANGED positionals_locked

\* options(("host", "tower"), ...) as files/base.py calls it: the method takes keywords only
options_positional(pairs) ==
    /\ pc = "main"
    /\ pairs # <<>>
    /\ Called("options", pairs,
              [pos |-> positional_actions, opts |-> option_actions,
               exc |-> Raise("TypeError", MsgOptionsArgs)])
    /\ UNCHANGED positionals_locked

parse(argv) ==
    /\ pc = "main"
    /\ \E r \in {ParseArgs(positional_actions, option_actions, argv)} :
        /\ op' = "parse"
        /\ arg' = argv
        /\ exc' = r.exc
        /\ pc' = IF r.exc = NoExc THEN "main" ELSE "raised"
        /\ ns' = IF r.exc = NoExc THEN r.ns ELSE NoNamespace
        /\ stdout' = IF r.exc # NoExc /\ r.exc.code = 0 THEN Append(stdout, r.err) ELSE stdout
        /\ stderr' = IF r.exc # NoExc /\ r.exc.code # 0 THEN Append(stderr, r.err) ELSE stderr
    /\ UNCHANGED <<module, positional_actions, option_actions, positionals_locked,
                   toggle, result, status, os_name, returned>>

----------------------------------------------------------------------------
(* main_wrap(_func): the function runs inside the try; an exception it     *)
(* raises reaches the except clause.                                       *)

\* str(e), as print(e) writes it, for the exceptions the clause catches
StrOf(e) ==
    IF e.args = <<>> THEN <<>>
    ELSE IF e.cls = "KeyError" THEN <<"'">> \o e.args[1] \o <<"'">>
    ELSE e.args[1]

\* a variant that names Exception only
Caught_ExceptionOnly(e) == e.cls \notin {"SystemExit", "GeneratorExit", "KeyboardInterrupt"}

\* a variant with a bare except
Caught_All(e) == TRUE

\* except (KeyboardInterrupt, Exception): SystemExit and GeneratorExit are neither
Caught(e) == e.cls \notin {"SystemExit", "GeneratorExit"}

\* a variant that compares without lower()
ToggleOn_CaseSensitive(env) == (IF env.set THEN env.val ELSE <<"f","a","l","s","e">>) = StrTrue

\* os.getenv(name, "false").lower() == "true"
ToggleOn(env) == Lower(IF env.set THEN env.val ELSE <<"f","a","l","s","e">>) = StrTrue

\* the status the interpreter ends with when an exception leaves the script
UncaughtStatus(e) ==
    IF e.cls = "SystemExit" THEN e.code
    ELSE IF e.cls = "KeyboardInterrupt" THEN 130
    ELSE 1

\* the statements of _func other than library calls: one of them raises
func_raises(e) ==
    /\ pc = "main"
    /\ pc' = "raised"
    /\ exc' = e
    /\ op' = "raise"
    /\ arg' = <<>>
    /\ ns' = NoNamespace
    /\ UNCHANGED <<module, positional_actions, option_actions, positionals_locked,
                   toggle, stdout, stderr, result, status, os_name, returned>>

\* a variant that returns the function's value
WrapReturn_PassThrough(v) == v

\* what main_wrap hands back when _func returned v: the call's value is dropped
WrapReturn(v) == VNone

\* _func returns v: main_wrap falls off its end, and the script after it ends
func_returns(v) ==
    /\ pc = "main"
    /\ pc' = "returned"
    /\ op' = "return"
    /\ arg' = v
    /\ result' = WrapReturn(v)
    /\ status' = Exited(0)
    /\ ns' = NoNamespace
    /\ UNCHANGED <<module, positional_actions, option_actions, positionals_locked,
                   exc, toggle, stdout, stderr, os_name, returned>>

\* the except clause of main_wrap
main_wrap ==
    /\ pc = "raised"
    /\ IF Caught(exc) /\ ~ToggleOn(toggle) THEN
            \* print(e); exit(1)
            /\ stdout' = Append(stdout, StrOf(exc))
            /\ pc' = "exit"
            /\ status' = Exited(1)
       ELSE
            \* raise, or an exception the clause does not name
            /\ stdout' = stdout
            /\ pc' = "propagated"
            /\ status' = Exited(UncaughtStatus(exc))
    /\ UNCHANGED <<module, positional_actions, option_actions, positionals_locked,
                   exc, op, arg, ns, toggle, stderr, result, os_name, returned>>

\* a caller that wraps a builder call in try/except and carries on
caller_catches ==
    /\ pc = "raised"
    /\ pc' = "main"
    /\ UNCHANGED <<module, positional_actions, option_actions, positionals_locked,
                   exc, op, arg, ns, toggle, stdout, stderr, result, status, os_name,
                   returned>>

----------------------------------------------------------------------------
(* The process runner: PySh.cmd (PySh.process in files/pysh.py) and        *)
(* PySh.shell.  A byte string is a sequence of integers 0..255; a decoded  *)
(* string is a sequence of code points.                                    *)

VBytes(b) == [t |-> "bytes", v |-> b]

MsgNoClosingQuotation == <<"No closing quotation">>
MsgNoEscapedCharacter == <<"No escaped character">>
MsgListIndex == <<"list index out of range">>
MsgNoSuchFile == <<"[Errno 2] No such file or directory">>
MsgCodec == <<"'utf-8' codec can't decode byte">>

\* shlex.split(s): POSIX rules, whitespace_split, no comments
ShlexQuotes == {"'", "\""}
ShlexEscape == "\\"
ShlexWhitespace == {" "}

RECURSIVE ShlexLoop(_, _, _, _, _, _, _)
ShlexLoop(s, i, state, escaped, tok, quoted, out) ==
    IF i > Len(s) THEN
        IF state \in ShlexQuotes
            THEN [exc |-> Raise("ValueError", MsgNoClosingQuotation), toks |-> <<>>]
        ELSE IF state = "esc"
            THEN [exc |-> Raise("ValueError", MsgNoEscapedCharacter), toks |-> <<>>]
        ELSE IF state = "a" /\ (tok # <<>> \/ quoted)
            THEN [exc |-> NoExc, toks |-> Append(out, tok)]
        ELSE [exc |-> NoExc, toks |-> out]
    ELSE LET c == s[i] IN
        IF state = "ws" THEN
            IF c \in ShlexWhitespace THEN ShlexLoop(s, i + 1, "ws", escaped, tok, quoted, out)
            ELSE IF c = ShlexEscape THEN ShlexLoop(s, i + 1, "esc", "a", tok, quoted, out)
            ELSE IF c \in ShlexQuotes THEN ShlexLoop(s, i + 1, c, escaped, tok, quoted, out)
            ELSE ShlexLoop(s, i + 1, "a", escaped, <<c>>, quoted, out)
        ELSE IF state \in ShlexQuotes THEN
            IF c = state THEN ShlexLoop(s, i + 1, "a", escaped, tok, TRUE, out)
            ELSE IF c = ShlexEscape /\ state = "\""
                THEN ShlexLoop(s, i + 1, "esc", state, tok, TRUE, out)
            ELSE ShlexLoop(s, i + 1, state, escaped, Append(tok, c), TRUE, out)
        ELSE IF state = "esc" THEN
            IF escaped \in ShlexQuotes /\ c # ShlexEscape /\ c # escaped
                THEN ShlexLoop(s, i + 1, escaped, escaped, tok \o <<ShlexEscape, c>>, quoted, out)
            ELSE ShlexLoop(s, i + 1, escaped, escaped, Append(tok, c), quoted, out)
        ELSE \* state = "a": inside a word
            IF c \in ShlexWhitespace THEN
                IF tok # <<>> \/ quoted
                    THEN ShlexLoop(s, i + 1, "ws", escaped, <<>>, FALSE, Append(out, tok))
                ELSE ShlexLoop(s, i + 1, "ws", escaped, tok, quoted, out)
            ELSE IF c \in ShlexQuotes THEN ShlexLoop(s, i + 1, c, escaped, tok, quoted, out)
            ELSE IF c = ShlexEscape THEN ShlexLoop(s, i + 1, "esc", "a", tok, quoted, out)
            ELSE ShlexLoop(s, i + 1, "a", escaped, Append(tok, c), quoted, out)

ShlexSplit(s) == ShlexLoop(s, 1, "ws", "a", <<>>, FALSE, <<>>)

\* str(b, 'utf-8'): strict decoding, which fails on a malformed sequence
Continuation(b) == b \in 128..191

RECURSIVE Utf8Loop(_, _, _)
Utf8Loop(b, i, out) ==
    IF i > Len(b) THEN [ok |-> TRUE, s |-> out]
    ELSE LET c == b[i]
             more == Len(b) - i
         IN
        IF c < 128 THEN Utf8Loop(b, i + 1, Append(out, c))
        ELSE IF /\ c \in 194..223
                /\ more >= 1
                /\ Continuation(b[i+1])
            THEN Utf8Loop(b, i + 2, Append(out, (c - 192) * 64 + (b[i+1] - 128)))
        ELSE IF /\ c \in 224..239
                /\ more >= 2
                /\ Continuation(b[i+1]) /\ Continuation(b[i+2])
                /\ (c = 224 => b[i+1] >= 160)
                /\ (c = 237 => b[i+1] <= 159)
            THEN Utf8Loop(b, i + 3,
                          Append(out, (c - 224) * 4096 + (b[i+1] - 128) * 64 + (b[i+2] - 128)))
        ELSE IF /\ c \in 240..244
                /\ more >= 3
                /\ Continuation(b[i+1]) /\ Continuation(b[i+2]) /\ Continuation(b[i+3])
                /\ (c = 240 => b[i+1] >= 144)
                /\ (c = 244 => b[i+1] <= 143)
            THEN Utf8Loop(b, i + 4,
                          Append(out, (c - 240) * 262144 + (b[i+1] - 128) * 4096
                                      + (b[i+2] - 128) * 64 + (b[i+3] - 128)))
        ELSE [ok |-> FALSE, s |-> <<>>]

Utf8Decode(b) == Utf8Loop(b, 1, <<>>)

\* how a child ends: it exits with a code, or (POSIX) a signal kills it
ChildExit(code, out, err) == [kind |-> "exit", code |-> code, out |-> out, err |-> err]
ChildKilled(sig, out, err) == [kind |-> "signal", code |-> sig, out |-> out, err |-> err]
NoChild == [kind |-> "none", code |-> 0, out |-> <<>>, err |-> <<>>]

\* Popen.returncode
ReturnCode(child) == IF child.kind = "exit" THEN child.code ELSE 0 - child.code

\* `text is True`
TextSelected(text) == text = VBool(TRUE)

\* a variant that decodes standard output only
Captured_StdoutOnly(command, text, found, child) ==
    LET so == Utf8Decode(child.out) IN
    IF command.v = <<>> \/ ~found \/ ~so.ok
        THEN [exc |-> Raise("FileNotFoundError", MsgNoSuchFile), ret |-> <<>>]
    ELSE [exc |-> NoExc,
          ret |-> <<VInt(ReturnCode(child)),
                    IF TextSelected(text) THEN VStr(so.s) ELSE VBytes(child.out),
                    VBytes(child.err)>>]

\* the body of cmd/process: split, Popen, communicate, decode, return
Captured(command, text, found, child) ==
    LET split == IF command.t = "str" THEN ShlexSplit(command.v)
                 ELSE [exc |-> NoExc, toks |-> command.v]
    IN  IF split.exc # NoExc THEN [exc |-> split.exc, ret |-> <<>>]
        ELSE IF split.toks = <<>>
            THEN [exc |-> Raise("IndexError", MsgListIndex), ret |-> <<>>]
        ELSE IF ~found \/ split.toks[1] = <<>>
            THEN [exc |-> Raise("FileNotFoundError", MsgNoSuchFile), ret |-> <<>>]
        ELSE IF TextSelected(text) THEN
            LET so == Utf8Decode(child.out)
                se == Utf8Decode(child.err)
            IN  IF ~so.ok \/ ~se.ok
                    THEN [exc |-> Raise("UnicodeDecodeError", MsgCodec), ret |-> <<>>]
                ELSE [exc |-> NoExc,
                      ret |-> <<VInt(ReturnCode(child)), VStr(so.s), VStr(se.s)>>]
        ELSE [exc |-> NoExc,
              ret |-> <<VInt(ReturnCode(child)), VBytes(child.out), VBytes(child.err)>>]

\* whether Popen started a child
Started(r) == r.exc = NoExc \/ r.exc.cls = "UnicodeDecodeError"

\* a method call of PySh leaves the parser and the guard's output alone
Ran(name, a, e, ret) ==
    /\ op' = name
    /\ arg' = a
    /\ exc' = e
    /\ pc' = IF e = NoExc THEN "main" ELSE "raised"
    /\ returned' = ret
    /\ ns' = NoNamespace
    /\ UNCHANGED <<module, positional_actions, option_actions, positionals_locked,
                   toggle, stdout, stderr, result, status, os_name>>

\* PySh.cmd(command, text) of files/pyshlib.py, PySh.process(command, text) of files/pysh.py
cmd(command, text, found, child) ==
    /\ pc = "main"
    /\ os_name = "nt" => child.kind = "exit"
    /\ \E r \in {Captured(command, text, found, child)} :
            Ran(IF module = "pyshlib" THEN "cmd" ELSE "process",
                [command |-> command, text |-> text,
                 child |-> IF Started(r) THEN child ELSE NoChild],
                r.exc, r.ret)

\* os.system(command): the exit code on Windows, the wait status on POSIX
System(host, child) ==
    IF host = "nt" THEN child.code
    ELSE IF child.kind = "exit" THEN child.code * 256
    ELSE child.code

\* PySh.shell(command): the shell runs the command line and ends as `child` says
shell(command, child) ==
    /\ pc = "main"
    /\ os_name = "nt" => child.kind = "exit"
    /\ Ran("shell", [command |-> command, text |-> VNone, child |-> child],
           NoExc, VInt(System(os_name, child)))

----------------------------------------------------------------------------
(* Inputs. *)

X == <<"x">>
Y == <<"y">>
R == <<"r">>
Plus == <<"+">>
Star == <<"*">>

\* positionals(*names)
NamesInputs == { <<>>, <<X>>, <<Plus>>, <<Star>>, <<X, Y>>, <<Plus, X>>, <<X, <<>> >> }

\* positionals(rest=..., nargs=...)
SpecialInputs ==
    { NoSpecial,
      [rest |-> R, nargs |-> "+"], [rest |-> R, nargs |-> "*"], [rest |-> R, nargs |-> "?"],
      [rest |-> R, nargs |-> "2"], [rest |-> <<"9","r">>, nargs |-> "+"],
      [rest |-> <<>>, nargs |-> "+"] }

\* names given to flags() and options()
NameChars == {"-", "_", "v"}
NameInputs == StringsUpTo(NameChars, MaxNameLen)

DefaultInputs == { VInt(22), VStr(<<"s","m">>), VBool(FALSE) }

----------------------------------------------------------------------------
(* Positional registration, by a caller that survives a refused call.      *)

NextPositionals ==
    \/ \E names \in NamesInputs, special \in SpecialInputs :
            /\ Len(positional_actions) < MaxPositionals
            /\ positionals(names, special)
    \/ caller_catches

SpecPositionals == InitBuilder /\ [][NextPositionals]_vars

----------------------------------------------------------------------------
(* Flag and option registration over every name up to MaxNameLen.          *)

NextNames ==
    \/ \E n \in NameInputs :
            /\ Len(option_actions) < Len(HelpActions) + MaxFlags
            /\ flags(<<n>>)
    \/ \E n \in NameInputs, d \in DefaultInputs :
            /\ Len(option_actions) < Len(HelpActions) + MaxFlags
            /\ options(<< <<n, d>> >>)

SpecNames == InitBuilder /\ [][NextNames]_vars

----------------------------------------------------------------------------
(* Options with typed defaults, then parse.                                *)

P == <<"p">>
D == <<"d">>
V == <<"v">>
OptP == <<"-", "-", "p">>
OptD == <<"-", "-", "d">>

ParseOptionInputs ==
    { << <<P, VInt(22)>> >>, << <<D, VBool(FALSE)>> >>, << <<P, VStr(<<"s","m">>)>> >> }
ParsePositionalInputs ==
    { [names |-> <<X>>, special |-> NoSpecial], [names |-> <<Star>>, special |-> NoSpecial] }
ArgvTokens ==
    { OptP, OptD, <<"-", "-", "v">>, <<"-", "-", "q">>,
      <<"2", "7">>, <<"-", "7">>, <<"a">>, <<>> }
ArgvInputs == StringsUpTo(ArgvTokens, MaxArgv)

RegisteredCount == Len(positional_actions) + Len(option_actions) - Len(HelpActions)

NextParse ==
    \/ \E kwargs \in ParseOptionInputs : RegisteredCount < MaxCalls /\ options(kwargs)
    \/ RegisteredCount < MaxCalls /\ flags(<<V>>)
    \/ \E c \in ParsePositionalInputs :
            RegisteredCount < MaxCalls /\ positionals(c.names, c.special)
    \/ \E argv \in ArgvInputs : op # "parse" /\ parse(argv)

SpecParse == InitBuilder /\ [][NextParse]_vars

----------------------------------------------------------------------------
(* A guarded script: main_wrap(main), where main builds the parser, parses *)
(* and runs its own statements, which return or raise.                     *)

Boom == <<"boom">>
Failures ==
    { Raise("Exception", Boom), Raise("KeyboardInterrupt", Boom), Raise("KeyError", Boom),
      Raise("RuntimeError", <<"Unknown system type: ", "plan9">>),
      [cls |-> "ValueError", args |-> <<>>, code |-> 0],
      SystemExit(3), [cls |-> "GeneratorExit", args |-> <<>>, code |-> 0] }
ReturnValues == { VNone, VInt(0), VInt(3), VStr(<<"o","k">>) }

ScriptPositionalInputs ==
    { [names |-> <<X>>, special |-> NoSpecial],
      [names |-> <<Plus>>, special |-> NoSpecial],
      [names |-> <<>>, special |-> [rest |-> R, nargs |-> "+"]],
      [names |-> <<>>, special |-> [rest |-> R, nargs |-> "2"]] }
ScriptOptionInputs == { << <<P, VInt(22)>> >> }
ScriptTokens == { OptP, <<"-", "-", "q">>, <<"2", "7">>, <<"a">> }
ScriptArgvInputs == StringsUpTo(ScriptTokens, MaxArgv)

Next ==
    \/ \E c \in ScriptPositionalInputs :
            RegisteredCount < MaxCalls /\ positionals(c.names, c.special)
    \/ \E kwargs \in ScriptOptionInputs : RegisteredCount < MaxCalls /\ options(kwargs)
    \/ \E kwargs \in ScriptOptionInputs : options_positional(kwargs)
    \/ \E argv \in ScriptArgvInputs : op # "parse" /\ parse(argv)
    \/ \E e \in Failures : func_raises(e)
    \/ \E v \in ReturnValues : func_returns(v)
    \/ main_wrap

Spec == Init /\ [][Next]_vars

----------------------------------------------------------------------------
(* A script that runs one command: captured, or through the shell.  The    *)
(* child's exit code, the signal that kills it and the bytes it writes are *)
(* the environment's choice.                                               *)

CommandInputs ==
    { VList(<<>>), VList(<< <<"a">> >>), VList(<< <<"a">>, <<"b">> >>),
      VStr(<<>>), VStr(<<"a">>), VStr(<<"a", " ", "'", "b", " ", "c", "'">>),
      VStr(<<"'", "a">>), VStr(<<"'", "'">>) }
TextInputs == { VBool(TRUE), VBool(FALSE), VInt(1) }
\* "", "a", U+00E9 in UTF-8, and a byte no UTF-8 sequence holds
StreamInputs == { <<>>, <<97>>, <<195, 169>>, <<255>> }
ExitCodes == 0..255
Signals == {9, 15}
ChildInputs ==
    {ChildExit(s, o, e) : s \in ExitCodes, o \in StreamInputs, e \in StreamInputs}
        \cup {ChildKilled(g, o, e) : g \in Signals, o \in StreamInputs, e \in StreamInputs}
ShellCommandInputs == { <<"e","x","i","t">>, <<"a"," ","|"," ","b">> }
\* the shell's streams are the caller's own: nothing is captured
ShellChildInputs ==
    {ChildExit(s, <<>>, <<>>) : s \in ExitCodes} \cup {ChildKilled(g, <<>>, <<>>) : g \in Signals}

InitProcess == Init /\ toggle = EnvUnset

NextProcess ==
    \/ /\ op = "none"
       /\ \E command \in CommandInputs, text \in TextInputs, found \in BOOLEAN,
             child \in ChildInputs :
                cmd(command, text, found, child)
    \/ /\ op = "none"
       /\ \E command \in ShellCommandInputs, child \in ShellChildInputs :
                shell(VStr(command), child)

SpecProcess == InitProcess /\ [][NextProcess]_vars

----------------------------------------------------------------------------
(* Claims about positional registration (SpecPositionals).                 *)

Last(q) == q[Len(q)]
Variadic(a) == a.nargs \in {"+", "*"}
HasVariadic == \E i \in 1..Len(positional_actions) : Variadic(positional_actions[i])

C2_OneTrailingVariadicLocked ==
    /\ Cardinality({i \in 1..Len(positional_actions) : Variadic(positional_actions[i])}) <= 1
    /\ \A i \in 1..Len(positional_actions) :
            Variadic(positional_actions[i]) => i = Len(positional_actions)
    /\ HasVariadic => positionals_locked

----------------------------------------------------------------------------
(* Claims about name normalisation (SpecNames).                            *)

\* the name the last flags()/options() call was given, and the one it registered
GivenName == IF op = "flags" THEN arg[1] ELSE arg[1][1]
RegisteredName == Last(option_actions).opt
Registered == op \in {"flags", "options"} /\ pc = "main"

\* the number of dashes a name starts with
RECURSIVE LeadingDashes(_)
LeadingDashes(s) == IF s # <<>> /\ Head(s) = "-" THEN 1 + LeadingDashes(Tail(s)) ELSE 0

\* C9: normalising a registered (already normalised) name again changes
\* nothing, for every given name with zero, one or two leading dashes.
C9_NormalizeIdempotent ==
    Registered =>
        /\ RegisteredName = (IF op = "flags" THEN FlagName(module, GivenName)
                             ELSE OptionName(module, GivenName))
        /\ (IF op = "flags" THEN FlagName(module, RegisteredName)
            ELSE OptionName(module, RegisteredName)) = RegisteredName

\* a name given with two dashes was registered by flags()
C9_Witness ==
    /\ Registered
    /\ op = "flags"
    /\ GivenName = <<"-", "-", "v">>
    /\ RegisteredName = <<"-", "-", "v">>

\* C10 as stated: a bare word w becomes --w, and a name that starts with a
\* dash (one dash or two) is registered unchanged.
C10_AsStated ==
    Registered =>
        RegisteredName = (IF LeadingDashes(GivenName) = 0 THEN <<"-", "-">> \o GivenName
                          ELSE GivenName)

\* the dashes flags()/options() put in front of a name
Dashes(k) == [i \in 1..k |-> "-"]

\* C10 as amended: a name with no leading dash gets two dashes, a name with
\* exactly one leading dash gets one more (-v becomes --v), a name with two
\* or more is kept; flags() of files/pyshlib.py then turns every underscore
\* into a dash.
C10_Amended ==
    Registered =>
        LET k == LeadingDashes(GivenName)
            added == IF k >= 2 THEN 0 ELSE 2 - k
            long == Dashes(added) \o GivenName
        IN  RegisteredName = (IF op = "flags" /\ module = "pyshlib"
                              THEN Replace(long, "_", "-") ELSE long)

\* a one-dash name was given to options() and registered with two dashes
C10_Witness ==
    /\ Registered
    /\ op = "options"
    /\ GivenName = <<"-", "v">>
    /\ RegisteredName = <<"-", "-", "v">>

----------------------------------------------------------------------------
(* Claims about the entry-point guard (Spec).                              *)

\* the toggle holds "true" in some letter case
SaysTrue(env) ==
    /\ env.set
    /\ Len(env.val) = 4
    /\ env.val[1] \in {"t", "T"} /\ env.val[2] \in {"r", "R"}
    /\ env.val[3] \in {"u", "U"} /\ env.val[4] \in {"e", "E"}

\* an Exception or a KeyboardInterrupt, as opposed to a SystemExit or GeneratorExit
IsFailure(e) == e.cls \notin {"None", "SystemExit", "GeneratorExit"}

\* m occurs in the line s
Contains(s, m) == \E i \in 0..(Len(s) - Len(m)) : SubSeq(s, i + 1, i + Len(m)) = m

\* the message an exception carries (empty when it has none)
MessageOf(e) == IF e.args = <<>> THEN <<>> ELSE e.args[1]

\* the step in which the guard's except clause runs
GuardHandles == pc = "raised" /\ pc' # "raised"

\* C3: with the toggle unset or not "true" (in any letter case), an
\* exception or keyboard interrupt raised under the guard is handled in one
\* step that prints exactly one line, containing its message, to standard
\* output and ends the process with exit status 1.
C3_SummarizeAndExit1 ==
    [][ (GuardHandles /\ IsFailure(exc) /\ ~SaysTrue(toggle))
        => /\ Len(stdout') = Len(stdout) + 1
           /\ Contains(Last(stdout'), MessageOf(exc))
           /\ pc' = "exit"
           /\ status' = Exited(1)
           /\ stderr' = stderr ]_vars

\* a keyboard interrupt carrying "boom" was summarised with the toggle set to "FALSE"
C3_Witness ==
    /\ op = "raise"
    /\ exc = Raise("KeyboardInterrupt", Boom)
    /\ toggle = EnvSet(<<"F","A","L","S","E">>)
    /\ pc = "exit"
    /\ stdout = <<Boom>>
    /\ status = Exited(1)

\* C4: with the toggle "true" in any letter case, a failure raised under the
\* guard leaves it unchanged: the same exception propagates, the guard
\* prints nothing and does not call exit(1).
C4_ToggleRethrows ==
    [][ (GuardHandles /\ IsFailure(exc) /\ SaysTrue(toggle))
        => /\ pc' = "propagated"
           /\ exc' = exc
           /\ stdout' = stdout
           /\ stderr' = stderr ]_vars

\* an error carrying "boom" propagated with the toggle set to "TRUE"
C4_Witness ==
    /\ op = "raise"
    /\ exc = Raise("Exception", Boom)
    /\ toggle = EnvSet(<<"T","R","U","E">>)
    /\ pc = "propagated"
    /\ stdout = <<>>

\* C5 as stated: when the guarded function returns v, the guard returns v
\* (the process ending with status 0 when v is None), and prints nothing.
C5_AsStated ==
    pc = "returned" =>
        /\ result.t = arg.t
        /\ result = arg
        /\ stdout = <<>>

\* C5 as amended: when the guarded function returns v, the guard drops v and
\* returns None whatever v is; nothing is printed, no exception is handled,
\* and the script ends with exit status 0.
C5_Amended ==
    pc = "returned" =>
        /\ result = VNone
        /\ status = Exited(0)
        /\ stdout = <<>>
        /\ exc = NoExc

\* the guarded function returned 3 and the guard returned None
C5_Witness ==
    /\ pc = "returned"
    /\ op = "return"
    /\ arg = VInt(3)
    /\ result = VNone

BuilderOps == {"positionals", "flags", "options"}
Ended == pc \in {"exit", "propagated"}

\* C6 as stated: with the toggle off, a configuration error of the builder
\* and a usage error of parse both end the process with one printed line
\* and exit status 1.
C6_AsStated ==
    (Ended /\ ~SaysTrue(toggle) /\ op \in BuilderOps \cup {"parse"})
        => /\ pc = "exit"
           /\ status = Exited(1)
           /\ Len(stdout) = 1

\* C6 as amended: with the toggle off, a configuration error raised by the
\* builder reaches the guard, which prints its message and exits with
\* status 1.  A usage error of parse is reported by the parser itself, on
\* standard error, and raised as SystemExit(2), which the guard does not
\* handle: the process ends with status 2 and the guard prints nothing,
\* whatever the toggle.
C6_Amended ==
    /\ (Ended /\ ~SaysTrue(toggle) /\ op \in BuilderOps)
            => /\ pc = "exit"
               /\ status = Exited(1)
               /\ stdout = <<MessageOf(exc)>>
    /\ (Ended /\ op = "parse")
            => /\ pc = "propagated"
               /\ exc = SystemExit(2)
               /\ status = Exited(2)
               /\ stdout = <<>>
               /\ Len(stderr) = 1

\* an option value failed its coercion and the process ended with status 2
C6_Witness ==
    /\ op = "parse"
    /\ arg = <<OptP, <<"a">> >>
    /\ toggle = EnvUnset
    /\ pc = "propagated"
    /\ stderr = <<ErrInvalidValue>>
    /\ status = Exited(2)

----------------------------------------------------------------------------
(* Claims about typed options (SpecParse).                                 *)

\* an optionally signed run of decimal digits, and its value
IntegerLiteral(t) ==
    LET body == IF t # <<>> /\ Head(t) \in {"+", "-"} THEN Tail(t) ELSE t IN
    body # <<>> /\ \A i \in 1..Len(body) : body[i] \in Digits

RECURSIVE Decimal(_)
Decimal(t) == IF t = <<>> THEN 0 ELSE 10 * Decimal(SubSeq(t, 1, Len(t) - 1)) + DigitVal(Last(t))

LiteralValue(t) ==
    IF Head(t) = "-" THEN 0 - Decimal(Tail(t))
    ELSE IF Head(t) = "+" THEN Decimal(Tail(t)) ELSE Decimal(t)

\* where the token list names an option, and the option's registered action
Uses(o) == {i \in 1..Len(arg) : arg[i] = o}
OptionsOfType(type) ==
    {k \in 1..Len(option_actions) :
        option_actions[k].action = "store" /\ option_actions[k].default.t = type}

\* C7: for an option registered with an integer default d, a parse without
\* an override yields the integer d, a parse whose (last) override token is
\* a decimal integer string yields that integer, and a parse with an
\* override token that is no integer string ends in a usage error and
\* returns no Namespace.
C7_IntOption ==
    op = "parse" =>
        \A k \in OptionsOfType("int") :
            LET a == option_actions[k]
                uses == Uses(a.opt)
                last == CHOOSE i \in uses : \A j \in uses : j <= i
            IN  /\ (\E i \in uses : i < Len(arg) /\ ~IntegerLiteral(arg[i + 1]))
                        => /\ pc = "raised"
                           /\ exc = SystemExit(2)
                           /\ ns = NoNamespace
                /\ pc = "main"
                        => /\ ns[a.dest].t = "int"
                           /\ ns[a.dest].v = IF uses = {} THEN a.default.v
                                             ELSE LiteralValue(arg[last + 1])

\* --p 27 was parsed against an option p with default 22 and gave the integer 27
C7_Witness ==
    /\ op = "parse"
    /\ pc = "main"
    /\ arg = <<OptP, <<"2", "7">> >>
    /\ \E k \in OptionsOfType("int") : option_actions[k].default = VInt(22)
    /\ ns[P] = VInt(27)

\* a token that spells a boolean
BooleanToken(t) == Lower(t) \in {StrTrue, <<"f","a","l","s","e">>}

\* C8: for an option registered with a boolean default, an override token
\* that is no boolean token makes parse end in a usage error.
C8_BoolOptionRejects ==
    op = "parse" =>
        \A k \in OptionsOfType("bool") :
            (\E i \in Uses(option_actions[k].opt) :
                    i < Len(arg) /\ ~BooleanToken(arg[i + 1]))
                => /\ pc = "raised"
                   /\ exc = SystemExit(2)

----------------------------------------------------------------------------
(* Claims about the process runner (SpecProcess).                          *)

CapturedRun == op \in {"cmd", "process"}
ChildExited == arg.child.kind = "exit"
WellFormed(b) == Utf8Decode(b).ok

\* C11 as stated: whenever the captured run had a child that exited with
\* status s, the call returned normally (s, stdout, stderr), both streams
\* strings in text mode and both bytes otherwise.
C11_AsStated ==
    (CapturedRun /\ ChildExited)
        => /\ exc = NoExc
           /\ Len(returned) = 3
           /\ returned[1] = VInt(arg.child.code)
           /\ returned[2].t = returned[3].t
           /\ returned[2].t = IF TextSelected(arg.text) THEN "str" ELSE "bytes"

\* C11: whenever the captured run had a child that exited with status s,
\* the outcome does not depend on s.  Unless text is exactly True the call
\* returns (s, stdout bytes, stderr bytes); with text True it returns
\* (s, stdout string, stderr string) when both streams are well-formed
\* UTF-8, and otherwise raises UnicodeDecodeError and returns nothing.
C11_Amended ==
    (CapturedRun /\ ChildExited)
        => IF TextSelected(arg.text)
                /\ (~WellFormed(arg.child.out) \/ ~WellFormed(arg.child.err))
           THEN /\ exc.cls = "UnicodeDecodeError"
                /\ pc = "raised"
                /\ returned = NoReturn
           ELSE /\ exc = NoExc
                /\ pc = "main"
                /\ Len(returned) = 3
                /\ returned[1] = VInt(arg.child.code)
                /\ returned[2].t = returned[3].t
                /\ returned[2].t = IF arg.text = VBool(TRUE) THEN "str" ELSE "bytes"
                /\ returned[2].t = "bytes"
                        => returned[2].v = arg.child.out /\ returned[3].v = arg.child.err

\* a text-mode run whose child exited 3 after writing U+00E9 to both streams
C11_Witness ==
    /\ CapturedRun
    /\ ChildExited
    /\ arg.child.code = 3
    /\ arg.text = VBool(TRUE)
    /\ exc = NoExc
    /\ returned = <<VInt(3), VStr(<<233>>), VStr(<<233>>)>>

\* C12: whenever the shell command line ended with exit code s, shell
\* returned the integer s.
C12_ShellReturnsStatus ==
    (op = "shell" /\ ChildExited) => returned = VInt(arg.child.code)

====
